---- MODULE Spec2Model ----
(***************************************************************************)
(* pH / alkalinity core of the ADM1 simulation app                         *)
(* (calculate_ph_and_alkalinity_fixed.py).                                 *)
(*                                                                         *)
(* Floating-point numbers are modelled as decimal floats <<m, e>> with an  *)
(* eight-digit signed mantissa m (10^7 <= |m| < 10^8, or m = 0) and value  *)
(* m * 10^e.  Every arithmetic operation rounds its result to eight        *)
(* digits, so conversions (mass concentration -> molarity, h -> pH ->      *)
(* h) lose precision the way the program's doubles do, only earlier.       *)
(***************************************************************************)
EXTENDS Integers, Sequences, FiniteSets, TLC

----------------------------------------------------------------------------
(* Decimal floating point                                                  *)

Digits == 8

\* e evaluated once, then Op applied to its value
Bind(e, Op(_)) == CHOOSE r \in {Op(x) : x \in {e}} : TRUE

IPow10[n \in Int] == IF n <= 0 THEN 1 ELSE 10 * IPow10[n - 1]

MantLo == IPow10[Digits - 1]
MantHi == IPow10[Digits]
Half == IPow10[Digits \div 2]

IAbs(x) == IF x < 0 THEN -x ELSE x
ISgn(x) == IF x < 0 THEN -1 ELSE IF x > 0 THEN 1 ELSE 0

\* x / 10^d rounded half away from zero, 0 <= d <= 9, |x| < 1.5 * 10^9
RoundShift[x \in Int, d \in Int] ==
    IF d = 0 THEN x
    ELSE ISgn(x) * ((IAbs(x) + IPow10[d] \div 2) \div IPow10[d])

Norm[m \in Int, e \in Int] ==
    IF m = 0 THEN <<0, 0>>
    ELSE IF IAbs(m) >= MantHi THEN Norm[RoundShift[m, 1], e + 1]
    ELSE IF IAbs(m) < MantLo THEN Norm[m * 10, e - 1]
    ELSE <<m, e>>

\* the float nearest to m * 10^e
F(m, e) == Norm[m, e]

Float == Int \X Int
Zero == <<0, 0>>
FNeg(a) == <<-a[1], a[2]>>
FAbs(a) == <<IAbs(a[1]), a[2]>>

\* the sum of hi and lo, hi the one with the larger exponent
AddAligned[hi \in Float, lo \in Float] ==
    IF hi[2] - lo[2] > Digits + 1 THEN hi
    ELSE Norm[hi[1] * 10 + RoundShift[lo[1] * 10, hi[2] - lo[2]], hi[2] - 1]

FAdd[a \in Float, b \in Float] ==
    IF a[1] = 0 THEN b
    ELSE IF b[1] = 0 THEN a
    ELSE IF a[2] >= b[2] THEN AddAligned[a, b] ELSE AddAligned[b, a]

FSub[a \in Float, b \in Float] == FAdd[a, FNeg(b)]

\* x * y / 10^(Digits - 1) for mantissas x, y, from their half-width parts
MulMant[xh \in Int, xl \in Int, yh \in Int, yl \in Int] ==
    xh * yh * 10 + ((xh * yl + xl * yh + (xl * yl) \div Half) * 10) \div Half

FMul[a \in Float, b \in Float] ==
    Norm[ISgn(a[1]) * ISgn(b[1])
           * MulMant[IAbs(a[1]) \div Half, IAbs(a[1]) % Half,
                     IAbs(b[1]) \div Half, IAbs(b[1]) % Half],
         a[2] + b[2] + Digits - 1]

\* n further quotient digits of r / y by long division
LongDiv[q \in Int, r \in Int, y \in Int, n \in Int] ==
    IF n = 0 THEN q
    ELSE LongDiv[q * 10 + (r * 10) \div y, (r * 10) % y, y, n - 1]

\* the quotient x / y of mantissas, y <= x < 10 * y, to Digits + 1 digits
DivMant[x \in Int, y \in Int] == LongDiv[x \div y, x % y, y, Digits]

\* b # Zero
FDiv[a \in Float, b \in Float] ==
    IF IAbs(a[1]) < IAbs(b[1])
    THEN Norm[ISgn(a[1]) * ISgn(b[1]) * DivMant[IAbs(a[1]) * 10, IAbs(b[1])],
              a[2] - 1 - b[2] - Digits]
    ELSE Norm[ISgn(a[1]) * ISgn(b[1]) * DivMant[IAbs(a[1]), IAbs(b[1])],
              a[2] - b[2] - Digits]

FLt(a, b) == FSub[a, b][1] < 0
FLe(a, b) == FSub[a, b][1] <= 0
FGt(a, b) == FLt(b, a)
FGe(a, b) == FLe(b, a)
FMax[a \in Float, b \in Float] == IF FGt(b, a) THEN b ELSE a
FMin[a \in Float, b \in Float] == IF FLt(b, a) THEN b ELSE a
SignBit(a) == a[1] < 0

----------------------------------------------------------------------------
(* np.log10 and the power 10 ** x, to the precision of the floats          *)

\* 10^(d/10), 10^(d/100), 10^(d/1000) for d = 0..9, as mantissas of [1, 10)
Tabs ==
    << <<10000000, 12589254, 15848932, 19952623, 25118864,
         31622777, 39810717, 50118723, 63095734, 79432823>>,
       <<10000000, 10232930, 10471285, 10715193, 10964782,
         11220185, 11481536, 11748976, 12022644, 12302688>>,
       <<10000000, 10023052, 10046158, 10069317, 10092529,
         10115795, 10139114, 10162487, 10185914, 10209395>> >>
\* 10^(d / 10^k)
TabF(k, d) == <<Tabs[k][d + 1], 1 - Digits>>

One == F(1, 0)
Two == F(2, 0)
Three == F(3, 0)
Six == F(6, 0)
Ln10 == F(23025851, -7)

\* a as an integer count of units 10^-k, rounded
ToFixed[a \in Float, k \in Int] ==
    IF a[2] + k >= 0 THEN a[1] * IPow10[a[2] + k]
    ELSE IF -(a[2] + k) > 9 THEN 0
    ELSE RoundShift[a[1], -(a[2] + k)]

\* e^z for a small z: 1 + z + z^2/2 + z^3/6
ExpSmall[z \in Float] ==
    FAdd[FAdd[FAdd[One, z], FDiv[FMul[z, z], Two]],
         FDiv[FMul[FMul[z, z], z], Six]]

\* ln(1 + t) for a small t: t - t^2/2 + t^3/3
LnSmall[t \in Float] ==
    FAdd[FSub[t, FDiv[FMul[t, t], Two]], FDiv[FMul[FMul[t, t], t], Three]]

\* 10 ** (X * 10^(1 - Digits))
Pow10Fixed[X \in Int] ==
    LET n    == X \div MantLo
        fr   == X % MantLo
        d1   == fr \div IPow10[Digits - 2]
        d2   == (fr \div IPow10[Digits - 3]) % 10
        d3   == (fr \div IPow10[Digits - 4]) % 10
        rest == fr % IPow10[Digits - 4]
    IN  Bind(FMul[FMul[FMul[TabF(1, d1), TabF(2, d2)], TabF(3, d3)],
                  ExpSmall[FMul[F(rest, 1 - Digits), Ln10]]],
             LAMBDA p : <<p[1], p[2] + n>>)

\* 10 ** x
Pow10(x) == Pow10Fixed[ToFixed[x, Digits - 1]]

\* the largest digit e >= d with 10^(e / 10^k) <= y
TabDigit[k \in Int, y \in Float, d \in Int] ==
    IF d < 9 /\ FLe(TabF(k, d + 1), y) THEN TabDigit[k, y, d + 1] ELSE d

\* <<d, y / 10^(d / 10^k)>> for the k-th decimal d of log10(y)
LogDigit[k \in Int, y \in Float] ==
    Bind(TabDigit[k, y, 0], LAMBDA d : <<d, FDiv[y, TabF(k, d)]>>)

\* log10 of a mantissa y in [1, 10)
LogMant[y \in Float] ==
    Bind(LogDigit[1, y], LAMBDA r1 :
    Bind(LogDigit[2, r1[2]], LAMBDA r2 :
    Bind(LogDigit[3, r2[2]], LAMBDA r3 :
        FAdd[F(r1[1] * 100 + r2[1] * 10 + r3[1], -3),
             FDiv[LnSmall[FSub[r3[2], One]], Ln10]])))

\* np.log10(a), a > 0
Log10[a \in Float] ==
    FAdd[F(a[2] + Digits - 1, 0), LogMant[<<a[1], 1 - Digits>>]]

----------------------------------------------------------------------------
(* Module constants and the equilibrium model                              *)

C_mw == F(120107, -4)
N_mw == F(140067, -4)
MW_AC == F(60, 0)
MW_PRO == F(74, 0)
MW_BU == F(88, 0)
MW_VA == F(102, 0)
Thousand == F(1000, 0)

Species == {"S_cat", "S_an", "S_IN", "S_IC", "S_ac", "S_pro", "S_bu", "S_va"}

\* a missing key read as 1
Get_DefaultOne(M, k) == IF k \in DOMAIN M THEN M[k] ELSE One

\* components_molarity.get(k, 0)
Get(M, k) == IF k \in DOMAIN M THEN M[k] ELSE Zero

\* S * K / (K + h)
Dissociated[S \in Float, K \in Float, h \in Float] ==
    FDiv[FMul[S, K], FAdd[K, h]]

\* the residual with the constants of ammonia and of carbon dioxide exchanged
acid_base_rxn_SwappedPairing(h_ion, components_molarity, Ka) ==
    LET S_cat == Get(components_molarity, "S_cat")
        S_an  == Get(components_molarity, "S_an")
        S_IN  == Get(components_molarity, "S_IN")
        S_IC  == Get(components_molarity, "S_IC")
        S_ac  == Get(components_molarity, "S_ac")
        S_pro == Get(components_molarity, "S_pro")
        S_bu  == Get(components_molarity, "S_bu")
        S_va  == Get(components_molarity, "S_va")
        oh_ion == FDiv[Ka[1], h_ion]
        nh3  == Dissociated[S_IN, Ka[3], h_ion]
        hco3 == Dissociated[S_IC, Ka[2], h_ion]
        ac   == Dissociated[S_ac, Ka[4], h_ion]
        pro  == Dissociated[S_pro, Ka[5], h_ion]
        bu   == Dissociated[S_bu, Ka[6], h_ion]
        va   == Dissociated[S_va, Ka[7], h_ion]
    IN  FSub[FSub[FSub[FSub[FSub[FSub[FSub[
            FAdd[FAdd[S_cat, h_ion], FSub[S_IN, nh3]],
            S_an], oh_ion], hco3], ac], pro], bu], va]

\* the residual of the charge balance at h_ion
acid_base_rxn(h_ion, components_molarity, Ka) ==
    LET S_cat == Get(components_molarity, "S_cat")
        S_an  == Get(components_molarity, "S_an")
        S_IN  == Get(components_molarity, "S_IN")
        S_IC  == Get(components_molarity, "S_IC")
        S_ac  == Get(components_molarity, "S_ac")
        S_pro == Get(components_molarity, "S_pro")
        S_bu  == Get(components_molarity, "S_bu")
        S_va  == Get(components_molarity, "S_va")
        oh_ion == FDiv[Ka[1], h_ion]
        nh3  == Dissociated[S_IN, Ka[2], h_ion]
        hco3 == Dissociated[S_IC, Ka[3], h_ion]
        ac   == Dissociated[S_ac, Ka[4], h_ion]
        pro  == Dissociated[S_pro, Ka[5], h_ion]
        bu   == Dissociated[S_bu, Ka[6], h_ion]
        va   == Dissociated[S_va, Ka[7], h_ion]
    IN  FSub[FSub[FSub[FSub[FSub[FSub[FSub[
            FAdd[FAdd[S_cat, h_ion], FSub[S_IN, nh3]],
            S_an], oh_ion], hco3], ac], pro], bu], va]

\* alk_molar of calculate_alkalinity at its h_ion = 10 ** (-pH)
AlkMolar(h_ion, components_molarity, Ka) ==
    LET S_cat == Get(components_molarity, "S_cat")
        S_an  == Get(components_molarity, "S_an")
        S_IN  == Get(components_molarity, "S_IN")
        S_IC  == Get(components_molarity, "S_IC")
        S_ac  == Get(components_molarity, "S_ac")
        S_pro == Get(components_molarity, "S_pro")
        S_bu  == Get(components_molarity, "S_bu")
        S_va  == Get(components_molarity, "S_va")
        oh_ion == FDiv[Ka[1], h_ion]
        nh3  == Dissociated[S_IN, Ka[2], h_ion]
        hco3 == Dissociated[S_IC, Ka[3], h_ion]
        ac   == Dissociated[S_ac, Ka[4], h_ion]
        pro  == Dissociated[S_pro, Ka[5], h_ion]
        bu   == Dissociated[S_bu, Ka[6], h_ion]
        va   == Dissociated[S_va, Ka[7], h_ion]
    IN  FSub[FAdd[FAdd[FAdd[FAdd[FAdd[FAdd[
            FSub[FAdd[hco3, oh_ion], h_ion],
            nh3], ac], pro], bu], va], S_cat], S_an]

\* the conversion to meq/L, the clamp at zero left out
AlkalinityAt_NoClamp(h_ion, components_molarity, Ka) ==
    FMul[AlkMolar(h_ion, components_molarity, Ka), Thousand]

\* max(0, alk_molar * 1000)
AlkalinityAt(h_ion, components_molarity, Ka) ==
    FMax[Zero, FMul[AlkMolar(h_ion, components_molarity, Ka), Thousand]]

calculate_alkalinity(components_molarity, pH, Ka) ==
    Bind(Pow10(FNeg(pH)),
         LAMBDA h_ion : AlkalinityAt(h_ion, components_molarity, Ka))

\* the IDs whose concentration get_component_molarities reads
Listed == Species \cup {"H2O"}

\* the divisor that turns mg/L into mol/L
MolarDivisor(c) ==
    CASE c = "S_cat" -> Thousand
      [] c = "S_an"  -> Thousand
      [] c = "S_IN"  -> FMul[N_mw, Thousand]
      [] c = "S_IC"  -> FMul[C_mw, Thousand]
      [] c = "S_ac"  -> FMul[MW_AC, Thousand]
      [] c = "S_pro" -> FMul[MW_PRO, Thousand]
      [] c = "S_bu"  -> FMul[MW_BU, Thousand]
      [] c = "S_va"  -> FMul[MW_VA, Thousand]

\* species at concentration zero are left out of the map
get_component_molarities_DropsZeros(stream) ==
    LET concentrations ==
            [c \in {d \in stream.IDs \cap Listed : stream.iconc[d] # Zero} |->
                stream.iconc[c]]
    IN  [c \in DOMAIN concentrations \cap Species |->
            FDiv[concentrations[c], MolarDivisor(c)]]

\* every concentration that was read is converted, water included
get_component_molarities_KeepsWater(stream) ==
    LET concentrations ==
            [c \in stream.IDs \cap Listed |-> stream.iconc[c]]
    IN  [c \in DOMAIN concentrations |->
            IF c = "H2O" THEN FDiv[concentrations[c], Thousand]
            ELSE FDiv[concentrations[c], MolarDivisor(c)]]

get_component_molarities(stream) ==
    LET concentrations ==
            [c \in stream.IDs \cap Listed |-> stream.iconc[c]]
    IN  [c \in DOMAIN concentrations \cap Species |->
            FDiv[concentrations[c], MolarDivisor(c)]]

\* pKa_base and Ka of update_ph_and_alkalinity
pKa_base == <<F(14, 0), F(925, -2), F(635, -2), F(476, -2),
              F(488, -2), F(482, -2), F(486, -2)>>
\* the powers taken without the minus sign
KaVector_PositiveExponent == [i \in 1..7 |-> Pow10(pKa_base[i])]

KaVector == [i \in 1..7 |-> Pow10(FNeg(pKa_base[i]))]

----------------------------------------------------------------------------
(* scipy.optimize.brenth as solve_ph calls it                              *)

\* brenth(acid_base_rxn, 1e-14, 1.0, ..., xtol=1e-12, maxiter=100)
BracketLo == F(1, -14)
BracketHi == F(1, 0)
XTol == F(1, -12)
MaxIter == 100
\* rtol is left at the library default, four times the float epsilon
RTol == F(4, 1 - Digits)

NoBrent == [xpre |-> Zero, xcur |-> Zero, xblk |-> Zero,
            fpre |-> Zero, fcur |-> Zero, fblk |-> Zero,
            spre |-> Zero, scur |-> Zero, i |-> 0]

\* what brenth does with the residuals fpre, fcur at the ends xa, xb
BrenthEnds(xa, xb, fpre, fcur) ==
    IF fpre = Zero THEN [status |-> "CONVERGED", x |-> xa, st |-> NoBrent]
    ELSE IF fcur = Zero
      THEN [status |-> "CONVERGED", x |-> xb, st |-> NoBrent]
    ELSE IF SignBit(fpre) = SignBit(fcur)
      THEN [status |-> "SIGNERR", x |-> Zero, st |-> NoBrent]
    ELSE [status |-> "INPROGRESS", x |-> Zero,
          st |-> [NoBrent EXCEPT !.xpre = xa, !.xcur = xb,
                                 !.fpre = fpre, !.fcur = fcur]]

\* the two evaluations at the ends of the bracket, before the loop
BrenthStart(M, Ka, xa, xb) ==
    Bind(<<acid_base_rxn(xa, M, Ka), acid_base_rxn(xb, M, Ka)>>,
         LAMBDA fs : BrenthEnds(xa, xb, fs[1], fs[2]))

\* the head of the loop body: a sign change between xpre and xcur makes xpre
\* the far end of the bracket, and the better estimate is kept in xcur
BrenthBracket(b) ==
    LET rb   == b.fpre # Zero /\ b.fcur # Zero
                /\ SignBit(b.fpre) # SignBit(b.fcur)
        xblk0 == IF rb THEN b.xpre ELSE b.xblk
        fblk0 == IF rb THEN b.fpre ELSE b.fblk
        s0   == IF rb THEN FSub[b.xcur, b.xpre] ELSE b.spre
        s1   == IF rb THEN FSub[b.xcur, b.xpre] ELSE b.scur
        sw   == FLt(FAbs(fblk0), FAbs(b.fcur))
    IN  [xpre |-> IF sw THEN b.xcur ELSE b.xpre,
         xcur |-> IF sw THEN xblk0 ELSE b.xcur,
         xblk |-> IF sw THEN b.xcur ELSE xblk0,
         fpre |-> IF sw THEN b.fcur ELSE b.fpre,
         fcur |-> IF sw THEN fblk0 ELSE b.fcur,
         fblk |-> IF sw THEN b.fcur ELSE fblk0,
         spre |-> s0, scur |-> s1, i |-> b.i]

\* the interpolated (xpre = xblk) or extrapolated step and whether it is
\* finite: a zero divisor gives inf or nan, which no comparison accepts
BrenthTry(c) ==
    IF c.xpre = c.xblk
    THEN <<TRUE, FDiv[FMul[FNeg(c.fcur), FSub[c.xcur, c.xpre]],
                      FSub[c.fcur, c.fpre]]>>
    ELSE IF FSub[c.xpre, c.xcur] = Zero THEN <<FALSE, Zero>>
    ELSE Bind(FSub[FMul[c.fblk, FDiv[FSub[c.fpre, c.fcur],
                                     FSub[c.xpre, c.xcur]]],
                   FMul[c.fpre, FDiv[FSub[c.fblk, c.fcur],
                                     FSub[c.xblk, c.xcur]]]],
              LAMBDA den :
                  IF den = Zero THEN <<FALSE, Zero>>
                  ELSE <<TRUE, FDiv[FMul[FNeg(c.fcur),
                                         FSub[c.fblk, c.fpre]], den]>>)

\* <<spre, scur>>: the short step when it is accepted, else bisection
BrenthStep(c, delta, sbis) ==
    IF FGt(FAbs(c.spre), delta) /\ FLt(FAbs(c.fcur), FAbs(c.fpre))
    THEN Bind(BrenthTry(c), LAMBDA try :
             IF try[1]
                /\ FLt(FMul[Two, FAbs(try[2])],
                       FMin[FAbs(c.spre),
                            FSub[FMul[Three, FAbs(sbis)], delta]])
             THEN <<c.scur, try[2]>>
             ELSE <<sbis, sbis>>)
    ELSE <<sbis, sbis>>

\* xcur moved by scur, or by delta towards the far end when scur is small
BrenthMove(xcur, scur, delta, sbis) ==
    IF FGt(FAbs(scur), delta) THEN FAdd[xcur, scur]
    ELSE FAdd[xcur, IF sbis[1] > 0 THEN delta ELSE FNeg(delta)]

\* one pass of the loop body; b.i < maxiter
BrenthIter(b, M, Ka, xtol, rtol) ==
    Bind(BrenthBracket(b), LAMBDA c :
    Bind(<<FDiv[FAdd[xtol, FMul[rtol, FAbs(c.xcur)]], Two],
           FDiv[FSub[c.xblk, c.xcur], Two]>>, LAMBDA ds :
        IF c.fcur = Zero \/ FLt(FAbs(ds[2]), ds[1])
        THEN [status |-> "CONVERGED", x |-> c.xcur, st |-> b]
        ELSE Bind(BrenthStep(c, ds[1], ds[2]), LAMBDA sp :
             Bind(BrenthMove(c.xcur, sp[2], ds[1], ds[2]), LAMBDA xnew :
                 [status |-> "INPROGRESS", x |-> Zero,
                  st |-> [xpre |-> c.xcur, xcur |-> xnew, xblk |-> c.xblk,
                          fpre |-> c.fcur,
                          fcur |-> acid_base_rxn(xnew, M, Ka),
                          fblk |-> c.fblk, spre |-> sp[1], scur |-> sp[2],
                          i |-> b.i + 1]]))))

----------------------------------------------------------------------------
(* Streams                                                                 *)

NStreams == 2
NThreads == 1
StreamIds == 1..NStreams
Threads == 1..NThreads

Seven == F(7, 0)
DefaultAlk == F(25, -1)
ICThreshold == F(1, -2)
BicarbFraction == F(7, -1)

\* every component a stream of the model may carry
AllIDs == Species \cup {"H2O", "S_su"}

\* mg/L of every component, the ones not named in upd at zero
Full(upd) ==
    [c \in AllIDs |-> IF c \in DOMAIN upd THEN upd[c]
                      ELSE IF c = "H2O" THEN F(1, 6) ELSE Zero]

CatLevels == {Zero, F(20, 0), F(40, 0), F(2000, 0)}
AnLevels == {Zero, F(20, 0), F(40, 0), F(2000, 0)}
ICLevels == {Zero, F(120107, -3), F(12011, -2), F(600535, -2)}

\* strong ions and inorganic carbon at every combination of a few levels
Mixes ==
    { Full(("S_cat" :> c) @@ ("S_an" :> a) @@ ("S_IC" :> ic)) :
        c \in CatLevels, a \in AnLevels, ic \in ICLevels }

\* the two streams of main(), in mg/L
Scenario2 ==
    Full(("S_su" :> F(10, 0)) @@ ("S_va" :> One) @@ ("S_bu" :> One)
         @@ ("S_pro" :> One) @@ ("S_ac" :> One)
         @@ ("S_IC" :> FMul[F(500, 0), C_mw])
         @@ ("S_IN" :> FMul[F(50, 0), N_mw])
         @@ ("S_cat" :> F(40, 0)) @@ ("S_an" :> F(20, 0)))
Scenario3 ==
    Full(("S_su" :> F(10, 0)) @@ ("S_va" :> F(5, 0)) @@ ("S_bu" :> F(5, 0))
         @@ ("S_pro" :> F(5, 0)) @@ ("S_ac" :> F(10, 0))
         @@ ("S_IC" :> FMul[F(200, 0), C_mw])
         @@ ("S_IN" :> FMul[F(30, 0), N_mw])
         @@ ("S_cat" :> F(20, 0)) @@ ("S_an" :> F(40, 0)))

\* streams that carry only some of the components
NoSpecies == ("H2O" :> F(1, 6)) @@ ("S_su" :> F(10, 0))
CatAnOnly == ("S_cat" :> F(40, 0)) @@ ("S_an" :> F(20, 0))
\* the residual is exactly zero at h = 1.0 / at h = 1e-14
UpperRoot == ("S_cat" :> F(1, -4)) @@ ("S_an" :> F(1000, 0))
             @@ ("S_ac" :> F(34526993, -5))
LowerRoot == ("S_cat" :> F(1000, 0)) @@ ("H2O" :> F(1, 6))

\* streams that carry only some of the components, and the two of main()
Named == {Scenario2, Scenario3, NoSpecies, CatAnOnly, UpperRoot, LowerRoot}

\* the attributes a WasteStream is constructed with
FreshAttrs == ("_pH" :> Seven) @@ ("_SAlk" :> DefaultAlk)
\* attributes left by some earlier computation
StaleAttrs == ("_pH" :> F(42, -1)) @@ ("_SAlk" :> F(150, 0))
\* the _pH and _SAlk attributes a stream may arrive with (<<>>: neither)
AttrInits == {FreshAttrs, StaleAttrs, <<>>}

MkStream(phase, iconc, attrs) ==
    [phase |-> phase, IDs |-> DOMAIN iconc, iconc |-> iconc, attrs |-> attrs]

StreamInputs ==
    { MkStream(ph, ic, at) : ph \in {"l", "g"}, ic \in Named, at \in AttrInits }
    \cup { MkStream("l", ic, FreshAttrs) : ic \in Mixes }

\* the other streams of the heap: there to show that calls do not interact
SideInputs ==
    { MkStream("g", Scenario2, StaleAttrs), MkStream("l", NoSpecies, <<>>) }

----------------------------------------------------------------------------
(* State                                                                   *)

VARIABLES
    streams,   \* the stream objects, by identity
    frames,    \* per thread: the invocation of update_ph_and_alkalinity
    prevOut    \* per stream: the attributes its last completed call left

vars == <<streams, frames, prevOut>>

NoOut == [done |-> FALSE, attrs |-> <<>>]

\* stream: the argument; had: the attributes it had at entry; Ka, M, br, h:
\* the locals; status: how brenth ended; funcalls: evaluations of the
\* residual; extracted: get_component_molarities was called; ret, exc: the
\* object returned or the exception raised
IdleFrame ==
    [pc |-> "idle", stream |-> 0, had |-> {}, Ka |-> <<>>, M |-> <<>>,
     br |-> NoBrent, h |-> Zero, ret |-> 0, exc |-> "none",
     extracted |-> FALSE, funcalls |-> 0, status |-> "none"]

Init ==
    /\ \E first \in StreamInputs, rest \in [StreamIds \ {1} -> SideInputs] :
          streams = [s \in StreamIds |-> IF s = 1 THEN first ELSE rest[s]]
    /\ frames = [t \in Threads |-> IdleFrame]
    /\ prevOut = [s \in StreamIds |-> NoOut]

----------------------------------------------------------------------------
(* update_ph_and_alkalinity, step by step                                  *)

\* stream.<name> = value: creates the attribute when it is missing
SetAttr(attrs, name, value) ==
    [a \in DOMAIN attrs \cup {name} |-> IF a = name THEN value ELSE attrs[a]]

\* the non-liquid branch with the alkalinity default of the liquid one
NonLiquidDefaults_LiquidAlk(attrs) ==
    LET a1 == IF "_pH" \in DOMAIN attrs
              THEN SetAttr(attrs, "_pH", Seven) ELSE attrs
    IN  IF "_SAlk" \in DOMAIN a1 THEN SetAttr(a1, "_SAlk", DefaultAlk) ELSE a1

\* the non-liquid branch: only attributes that exist are set
NonLiquidDefaults(attrs) ==
    LET a1 == IF "_pH" \in DOMAIN attrs
              THEN SetAttr(attrs, "_pH", Seven) ELSE attrs
    IN  IF "_SAlk" \in DOMAIN a1 THEN SetAttr(a1, "_SAlk", Zero) ELSE a1

\* the empty-map branch with the alkalinity default of the non-liquid one
EmptyDefaults_ZeroAlk(attrs) ==
    SetAttr(SetAttr(attrs, "_pH", Seven), "_SAlk", Zero)

\* the branch for an empty molarity map
EmptyDefaults(attrs) ==
    SetAttr(SetAttr(attrs, "_pH", Seven), "_SAlk", DefaultAlk)

\* the handler returning the neutral pH where a concentration is expected
FallbackH_pH == F(7, 0)

\* the h that solve_ph substitutes when brenth raises ValueError
FallbackH == F(1, -7)

\* the default returned whatever brenth found
solve_ph_outcome_AlwaysDefault(status, x) ==
    [exc |-> "none", h |-> FallbackH]

\* solve_ph's try/except around brenth: the h returned, or the exception
\* that leaves solve_ph
solve_ph_outcome(status, x) ==
    CASE status = "CONVERGED" -> [exc |-> "none", h |-> x]
      [] status = "SIGNERR"   -> [exc |-> "none", h |-> FallbackH]
      [] status = "CONVERR"   -> [exc |-> "RuntimeError", h |-> Zero]

\* the correction taking the smaller of the two values
HighICCorrection_Min(alk, components_molarity) ==
    IF FGt(Get(components_molarity, "S_IC"), ICThreshold)
    THEN FMin[alk, FMul[FMul[Get(components_molarity, "S_IC"),
                             BicarbFraction], Thousand]]
    ELSE alk

\* the correction applied from the threshold on, the threshold included
HighICCorrection_AtThreshold(alk, components_molarity) ==
    IF FGe(Get(components_molarity, "S_IC"), ICThreshold)
    THEN FMax[alk, FMul[FMul[Get(components_molarity, "S_IC"),
                             BicarbFraction], Thousand]]
    ELSE alk

\* the high-inorganic-carbon correction; alk is a value
HighICCorrection(alk, components_molarity) ==
    IF FGt(Get(components_molarity, "S_IC"), ICThreshold)
    THEN LET S_IC_molarity == Get(components_molarity, "S_IC")
             direct_alk_estimate ==
                 FMul[FMul[S_IC_molarity, BicarbFraction], Thousand]
         IN  FMax[alk, direct_alk_estimate]
    ELSE alk

\* the write-back adding to the alkalinity the stream already holds
WriteBack_Accumulate(stream, pH, alk) ==
    [stream EXCEPT !.attrs =
        SetAttr(SetAttr(stream.attrs, "_pH", pH), "_SAlk",
                FAdd[alk, Get(stream.attrs, "_SAlk")])]

\* the write-back also storing the molarities in place of the concentrations
WriteBack_Molar(stream, pH, alk) ==
    [stream EXCEPT !.attrs = SetAttr(SetAttr(stream.attrs, "_pH", pH),
                                     "_SAlk", alk),
                   !.iconc = [c \in DOMAIN stream.iconc |->
                                 IF c \in Species
                                 THEN FDiv[stream.iconc[c], MolarDivisor(c)]
                                 ELSE stream.iconc[c]]]

\* stream._pH = pH; stream._SAlk = alk
WriteBack(stream, pH, alk) ==
    [stream EXCEPT !.attrs =
        SetAttr(SetAttr(stream.attrs, "_pH", pH), "_SAlk", alk)]

\* returning nothing
ReturnStream_None(fr) == [fr EXCEPT !.pc = "returned", !.ret = 0]

\* return stream
ReturnStream(fr) == [fr EXCEPT !.pc = "returned", !.ret = fr.stream]

\* the caller invokes update_ph_and_alkalinity(streams[s]); the application
\* runs one invocation at a time
Call(t, s) ==
    /\ \A u \in Threads : frames[u].pc = "idle"
    /\ frames' = [frames EXCEPT ![t] =
                    [IdleFrame EXCEPT !.pc = "gate", !.stream = s,
                                      !.had = DOMAIN streams[s].attrs]]
    /\ UNCHANGED <<streams, prevOut>>

PhaseGate(t) ==
    LET fr == frames[t]
        s  == fr.stream
    IN  /\ fr.pc = "gate"
        /\ IF streams[s].phase # "l"
           THEN /\ streams' = [streams EXCEPT ![s].attrs =
                                  NonLiquidDefaults(streams[s].attrs)]
                /\ frames' = [frames EXCEPT ![t] = ReturnStream(fr)]
           ELSE /\ frames' = [frames EXCEPT ![t].pc = "extract",
                                            ![t].Ka = KaVector]
                /\ UNCHANGED streams
        /\ UNCHANGED prevOut

\* the molarity map kept in one place for all invocations: extracting it
\* replaces the map of every invocation that is under way
Extract_SharedMap(t) ==
    LET fr == frames[t]
        s  == fr.stream
    IN  /\ fr.pc = "extract"
        /\ \E components_molarity \in {get_component_molarities(streams[s])} :
              IF DOMAIN components_molarity = {}
              THEN /\ streams' = [streams EXCEPT ![s].attrs =
                                     EmptyDefaults(streams[s].attrs)]
                   /\ frames' = [frames EXCEPT ![t] =
                          ReturnStream([fr EXCEPT !.extracted = TRUE])]
              ELSE /\ frames' =
                          [u \in DOMAIN frames |->
                              IF u = t
                              THEN [fr EXCEPT !.pc = "solve",
                                              !.extracted = TRUE,
                                              !.M = components_molarity]
                              ELSE IF frames[u].pc \in {"solve", "iter", "alk"}
                              THEN [frames[u] EXCEPT !.M = components_molarity]
                              ELSE frames[u]]
                   /\ UNCHANGED streams
        /\ UNCHANGED prevOut

Extract(t) ==
    LET fr == frames[t]
        s  == fr.stream
    IN  /\ fr.pc = "extract"
        /\ \E components_molarity \in {get_component_molarities(streams[s])} :
              IF DOMAIN components_molarity = {}
              THEN /\ streams' = [streams EXCEPT ![s].attrs =
                                     EmptyDefaults(streams[s].attrs)]
                   /\ frames' = [frames EXCEPT ![t] =
                          ReturnStream([fr EXCEPT !.extracted = TRUE])]
              ELSE /\ frames' = [frames EXCEPT ![t].pc = "solve",
                                               ![t].extracted = TRUE,
                                               ![t].M = components_molarity]
                   /\ UNCHANGED streams
        /\ UNCHANGED prevOut

\* brenth returned or raised: solve_ph returns h or lets the exception out
SolveEnd(fr, status, x) ==
    LET out == solve_ph_outcome(status, x)
    IN  IF out.exc = "none"
        THEN [fr EXCEPT !.pc = "alk", !.h = out.h, !.status = status]
        ELSE [fr EXCEPT !.pc = "raised", !.exc = out.exc, !.status = status]

SolveStart(t) ==
    LET fr == frames[t]
    IN  /\ fr.pc = "solve"
        /\ \E r \in {BrenthStart(fr.M, fr.Ka, BracketLo, BracketHi)} :
              frames' = [frames EXCEPT ![t] =
                  IF r.status = "INPROGRESS"
                  THEN [fr EXCEPT !.pc = "iter", !.br = r.st, !.funcalls = 2]
                  ELSE SolveEnd([fr EXCEPT !.funcalls = 2], r.status, r.x)]
        /\ UNCHANGED <<streams, prevOut>>

SolveIter(t) ==
    LET fr == frames[t]
    IN  /\ fr.pc = "iter"
        /\ IF fr.br.i >= MaxIter
           THEN frames' = [frames EXCEPT ![t] = SolveEnd(fr, "CONVERR", Zero)]
           ELSE \E r \in {BrenthIter(fr.br, fr.M, fr.Ka, XTol, RTol)} :
                  frames' = [frames EXCEPT ![t] =
                      IF r.status = "INPROGRESS"
                      THEN [fr EXCEPT !.br = r.st,
                                      !.funcalls = fr.funcalls + 1]
                      ELSE SolveEnd(fr, r.status, r.x)]
        /\ UNCHANGED <<streams, prevOut>>

\* the correction also putting the pH back to neutral when it replaces the
\* alkalinity
Finish_CorrectionResetsPH(t) ==
    LET fr == frames[t]
        s  == fr.stream
    IN  /\ fr.pc = "alk"
        /\ \E pH \in {FNeg(Log10[fr.h])} :
           \E alk0 \in {calculate_alkalinity(fr.M, pH, fr.Ka)} :
           \E alk \in {HighICCorrection(alk0, fr.M)} :
              streams' = [streams EXCEPT ![s] =
                             WriteBack(streams[s],
                                       IF alk = alk0 THEN pH ELSE Seven, alk)]
        /\ frames' = [frames EXCEPT ![t] = ReturnStream(fr)]
        /\ UNCHANGED prevOut

\* pH, alkalinity, correction and write-back
Finish(t) ==
    LET fr == frames[t]
        s  == fr.stream
    IN  /\ fr.pc = "alk"
        /\ \E pH \in {FNeg(Log10[fr.h])} :
           \E alk0 \in {calculate_alkalinity(fr.M, pH, fr.Ka)} :
           \E alk \in {HighICCorrection(alk0, fr.M)} :
              streams' = [streams EXCEPT ![s] = WriteBack(streams[s], pH, alk)]
        /\ frames' = [frames EXCEPT ![t] = ReturnStream(fr)]
        /\ UNCHANGED prevOut

\* the caller takes the returned stream, or the exception
Return(t) ==
    LET fr == frames[t]
        s  == fr.stream
    IN  /\ fr.pc \in {"returned", "raised"}
        /\ prevOut' = [prevOut EXCEPT ![s] =
                          [done |-> TRUE, attrs |-> streams[s].attrs]]
        /\ frames' = [frames EXCEPT ![t] = IdleFrame]
        /\ UNCHANGED streams

Next ==
    \E t \in Threads :
        \/ \E s \in StreamIds : Call(t, s)
        \/ PhaseGate(t)
        \/ Extract(t)
        \/ SolveStart(t)
        \/ SolveIter(t)
        \/ Finish(t)
        \/ Return(t)

Spec == Init /\ [][Next]_vars

----------------------------------------------------------------------------
(* brenth by its contract: the decimal floats do not reproduce the         *)
(* rounding of the program's doubles step for step, so whether some input  *)
(* keeps the loop from meeting its tolerance in maxiter passes is left     *)
(* open here; when it happens, brenth (disp left at True) raises           *)
(* RuntimeError                                                            *)

ExhaustIterations(t) ==
    LET fr == frames[t]
    IN  /\ fr.pc = "iter"
        /\ frames' = [frames EXCEPT ![t] =
              SolveEnd([fr EXCEPT !.br.i = MaxIter,
                                  !.funcalls = MaxIter + 2], "CONVERR", Zero)]
        /\ UNCHANGED <<streams, prevOut>>

NextCap == Next \/ \E t \in Threads : ExhaustIterations(t)

SpecCap == Init /\ [][NextCap]_vars

\* a step of an invocation that has started; the interpreter keeps executing
\* a call it has entered, while nothing obliges the caller to make another
StepCap(t) ==
    \/ PhaseGate(t)
    \/ Extract(t)
    \/ SolveStart(t)
    \/ SolveIter(t)
    \/ ExhaustIterations(t)
    \/ Finish(t)
    \/ Return(t)

FairCap == SpecCap /\ \A t \in Threads : WF_vars(StepCap(t))

----------------------------------------------------------------------------
(* Properties                                                              *)

C2_FailureFallsBack ==
    \A t \in Threads :
        frames[t].status \in {"SIGNERR", "CONVERR"}
        => /\ frames[t].exc = "none"
           /\ frames[t].h = FallbackH

\* C3 as stated: no call raises, and a call that has returned leaves both
\* fields on the stream, holding numbers
C3_ReturnsWithNumbers ==
    \A t \in Threads :
        /\ frames[t].pc # "raised"
        /\ frames[t].pc = "returned"
             => {"_pH", "_SAlk"} \subseteq DOMAIN streams[frames[t].stream].attrs

\* C4: on every path that returns, the alkalinity the stream holds, which
\* the call has written, is not negative
C4_AlkalinityNonNegative ==
    \A t \in Threads :
        (frames[t].pc = "returned"
           /\ "_SAlk" \in DOMAIN streams[frames[t].stream].attrs)
        => FGe(streams[frames[t].stream].attrs["_SAlk"], Zero)

\* a converged solve of an acidic stream has returned with alkalinity 0
C4_AcidicClamped ==
    \E t \in Threads :
        /\ frames[t].pc = "returned"
        /\ frames[t].status = "CONVERGED"
        /\ FLt(streams[frames[t].stream].attrs["_pH"], Three)
        /\ streams[frames[t].stream].attrs["_SAlk"] = Zero

\* C5, as the code has it: the h that solve_ph returns lies in the closed
\* bracket [1e-14, 1.0], both ends included
C5_HInClosedBracket ==
    \A t \in Threads :
        frames[t].pc = "alk"
        => /\ FGe(frames[t].h, BracketLo)
           /\ FLe(frames[t].h, BracketHi)

\* C5 as stated: the h that solve_ph returns is above 0 and below 1
C5_HStrictlyInside ==
    \A t \in Threads :
        frames[t].pc = "alk"
        => /\ FGt(frames[t].h, Zero)
           /\ FLt(frames[t].h, One)

\* solve_ph has returned a root found at the upper end of the bracket
C5_RootAtUpperEnd ==
    \E t \in Threads :
        /\ frames[t].pc = "alk"
        /\ frames[t].status = "CONVERGED"
        /\ frames[t].funcalls = 2
        /\ frames[t].h = BracketHi

\* C6: a call on a liquid stream carrying none of the eight species leaves
\* pH = 7.0 and alkalinity = 2.5 and never evaluates the residual
C6_EmptyMapDefaults ==
    \A t \in Threads :
        (/\ frames[t].pc = "returned"
         /\ streams[frames[t].stream].phase = "l"
         /\ streams[frames[t].stream].IDs \cap Species = {})
        => /\ {"_pH", "_SAlk"} \subseteq DOMAIN streams[frames[t].stream].attrs
           /\ streams[frames[t].stream].attrs["_pH"] = Seven
           /\ streams[frames[t].stream].attrs["_SAlk"] = DefaultAlk
           /\ frames[t].funcalls = 0

\* a liquid stream without species and without fields has returned
C6_EmptyLiquidReturned ==
    \E t \in Threads :
        /\ frames[t].pc = "returned"
        /\ streams[frames[t].stream].phase = "l"
        /\ streams[frames[t].stream].IDs \cap Species = {}
        /\ frames[t].extracted
        /\ frames[t].had = {}
        /\ streams[frames[t].stream].attrs["_SAlk"] = DefaultAlk

\* C7: after a call on a liquid stream whose S_IC molarity exceeds 0.01, the
\* alkalinity is at least 0.7 * S_IC * 1000
C7_HighICFloor ==
    \A t \in Threads :
        (/\ frames[t].pc = "returned"
         /\ streams[frames[t].stream].phase = "l"
         /\ FGt(Get(get_component_molarities(streams[frames[t].stream]),
                    "S_IC"), ICThreshold))
        => FGe(streams[frames[t].stream].attrs["_SAlk"],
               FMul[FMul[BicarbFraction,
                         Get(get_component_molarities(
                                 streams[frames[t].stream]), "S_IC")],
                    Thousand])

\* a call that fell back has returned with the alkalinity raised to the floor
C7_FloorAfterFallback ==
    \E t \in Threads :
        /\ frames[t].pc = "returned"
        /\ frames[t].status = "SIGNERR"
        /\ FGt(Get(frames[t].M, "S_IC"), ICThreshold)
        /\ streams[frames[t].stream].attrs["_SAlk"]
             = FMul[FMul[BicarbFraction, Get(frames[t].M, "S_IC")], Thousand]

\* C8: a call on a stream that an earlier call has completed on leaves the
\* same pH and alkalinity as that earlier call did
C8_SecondCallSameOutputs ==
    \A t \in Threads :
        (frames[t].pc = "returned" /\ prevOut[frames[t].stream].done)
        => streams[frames[t].stream].attrs = prevOut[frames[t].stream].attrs

\* a second, solved call has returned, after a call on another stream too
C8_SecondSolvedCall ==
    \E t \in Threads :
        /\ frames[t].pc = "returned"
        /\ frames[t].funcalls > 2
        /\ \A s \in StreamIds : prevOut[s].done

\* C9: no step of a call changes a stream's phase, component set or
\* concentrations
C9_OnlyOutputsChange ==
    [][\A s \in StreamIds :
          /\ streams'[s].phase = streams[s].phase
          /\ streams'[s].IDs = streams[s].IDs
          /\ streams'[s].iconc = streams[s].iconc]_vars

\* a solved call has written a pH other than the default
C9_SolvedCallWritten ==
    \E t \in Threads :
        /\ frames[t].pc = "returned"
        /\ frames[t].status = "CONVERGED"
        /\ streams[frames[t].stream].attrs["_pH"] # Seven

\* C10: the object a call returns is the stream it was given
C10_ReturnsArgument ==
    \A t \in Threads :
        frames[t].pc = "returned" => frames[t].ret = frames[t].stream

\* a solved call has returned its argument, which holds the outputs
C10_SolvedCallReturned ==
    \E t \in Threads :
        /\ frames[t].pc = "returned"
        /\ frames[t].funcalls > 2
        /\ frames[t].ret = frames[t].stream
        /\ frames[t].had = {}
        /\ DOMAIN streams[frames[t].ret].attrs = {"_pH", "_SAlk"}

----------------------------------------------------------------------------
(* acid_base_rxn called directly, on a molarity map and a candidate h      *)
(* chosen by the caller; a second call on the same map with another h      *)
(* follows, so that two values of the residual can be compared.  In this   *)
(* specification frames is the one frame of that caller.                   *)

\* the candidates: the decades of the bracket, floats next to each other
\* inside and just below it, and 0
HGrid ==
    { F(1, -k) : k \in 0..14 }
    \cup { F(99999999, -22), F(10000001, -10), F(5, -13), F(3, -7), Zero }

\* the molarity maps: those of the named streams and of strong-ion mixes
RxnProfiles ==
    Named \cup { Full(("S_cat" :> c) @@ ("S_an" :> a)) :
                    c \in CatLevels, a \in AnLevels }
RxnMaps ==
    { get_component_molarities(MkStream("l", ic, <<>>)) : ic \in RxnProfiles }

\* the residual with the sign convention reversed
acid_base_rxn_call_Negated(h_ion, components_molarity, Ka) ==
    IF h_ion = Zero \/ \E i \in 2..7 : FAdd[Ka[i], h_ion] = Zero
    THEN [finite |-> FALSE, value |-> Zero,
          M |-> components_molarity, Ka |-> Ka]
    ELSE [finite |-> TRUE,
          value |-> FNeg(acid_base_rxn(h_ion, components_molarity, Ka)),
          M |-> components_molarity, Ka |-> Ka]

\* the lookups done with setdefault, which stores the default in the map
acid_base_rxn_call_Setdefault(h_ion, components_molarity, Ka) ==
    IF h_ion = Zero \/ \E i \in 2..7 : FAdd[Ka[i], h_ion] = Zero
    THEN [finite |-> FALSE, value |-> Zero,
          M |-> [k \in Species |-> Get(components_molarity, k)], Ka |-> Ka]
    ELSE [finite |-> TRUE,
          value |-> acid_base_rxn(h_ion, components_molarity, Ka),
          M |-> [k \in Species |-> Get(components_molarity, k)], Ka |-> Ka]

\* a call of acid_base_rxn: the value returned, whether it is a finite number
\* (a zero divisor gives inf or nan), and the two argument objects after it
acid_base_rxn_call(h_ion, components_molarity, Ka) ==
    IF h_ion = Zero \/ \E i \in 2..7 : FAdd[Ka[i], h_ion] = Zero
    THEN [finite |-> FALSE, value |-> Zero,
          M |-> components_molarity, Ka |-> Ka]
    ELSE [finite |-> TRUE,
          value |-> acid_base_rxn(h_ion, components_molarity, Ka),
          M |-> components_molarity, Ka |-> Ka]

\* M0, Ka0: the arguments as passed; M, Ka: the same objects now; prev: the
\* candidate and the value of the call before
RxnIdle ==
    [pc |-> "idle", M0 |-> <<>>, Ka0 |-> <<>>, M |-> <<>>, Ka |-> <<>>,
     h |-> Zero, finite |-> TRUE, value |-> Zero, prev |-> <<>>]

InitRxn ==
    /\ streams = [s \in StreamIds |-> MkStream("l", NoSpecies, <<>>)]
    /\ frames = RxnIdle
    /\ prevOut = [s \in StreamIds |-> NoOut]

RxnCall ==
    /\ frames.pc = "idle"
    /\ \E M \in RxnMaps, h \in HGrid :
          frames' = [RxnIdle EXCEPT !.pc = "called", !.M0 = M, !.M = M,
                                    !.Ka0 = KaVector, !.Ka = KaVector,
                                    !.h = h]
    /\ UNCHANGED <<streams, prevOut>>

RxnEval ==
    /\ frames.pc = "called"
    /\ \E r \in {acid_base_rxn_call(frames.h, frames.M, frames.Ka)} :
          frames' = [frames EXCEPT !.pc = "done", !.finite = r.finite,
                                   !.value = r.value, !.M = r.M, !.Ka = r.Ka]
    /\ UNCHANGED <<streams, prevOut>>

RxnAgain ==
    /\ frames.pc = "done"
    /\ frames.prev = <<>>
    /\ frames.finite
    /\ \E h \in HGrid \ {frames.h} :
          frames' = [frames EXCEPT !.pc = "called", !.h = h,
                                   !.prev = <<frames.h, frames.value>>]
    /\ UNCHANGED <<streams, prevOut>>

NextRxn == RxnCall \/ RxnEval \/ RxnAgain

SpecRxn == InitRxn /\ [][NextRxn]_vars

\* C12, as the code has it: the residual does not decrease as h grows over
\* the bracket: for h1 < h2, f(h1) <= f(h2)
C12_ResidualNonDecreasing ==
    (/\ frames.pc = "done" /\ frames.prev # <<>> /\ frames.finite
     /\ FGe(frames.prev[1], BracketLo) /\ FLe(frames.h, BracketHi)
     /\ FLt(frames.prev[1], frames.h))
    => FLe(frames.prev[2], frames.value)

\* C12 as stated: for h1 < h2 in (1e-14, 1.0), f(h1) > f(h2)
C12_ResidualStrictlyDecreasing ==
    (/\ frames.pc = "done" /\ frames.prev # <<>> /\ frames.finite
     /\ FGt(frames.prev[1], BracketLo) /\ FLt(frames.h, BracketHi)
     /\ FLt(frames.prev[1], frames.h))
    => FGt(frames.prev[2], frames.value)

\* the residual of the second demonstration stream has been evaluated at
\* 1e-9 and then at 1e-3, and has grown
C12_ResidualGrew ==
    /\ frames.pc = "done" /\ frames.prev # <<>>
    /\ frames.M0 = get_component_molarities(MkStream("l", Scenario3, <<>>))
    /\ frames.prev[1] = F(1, -9) /\ frames.h = F(1, -3)
    /\ FLt(frames.prev[2], frames.value)

\* C13, as the code has it: the zeros of the residual in (0, 1) are not
\* separated by a change of sign: when f(h1) = 0 and h1 < h2 then f(h2) >= 0,
\* and when f(h2) = 0 and h1 < h2 then f(h1) <= 0
C13_ZerosNotSeparated ==
    (/\ frames.pc = "done" /\ frames.prev # <<>> /\ frames.finite
     /\ FGt(frames.prev[1], Zero) /\ FLt(frames.h, One)
     /\ FLt(frames.prev[1], frames.h))
    => /\ frames.prev[2] = Zero => FGe(frames.value, Zero)
       /\ frames.value = Zero => FLe(frames.prev[2], Zero)

\* C13 as stated: no two distinct h in (0, 1) both have residual zero
C13_AtMostOneRoot ==
    (/\ frames.pc = "done" /\ frames.prev # <<>> /\ frames.finite
     /\ FGt(frames.prev[1], Zero) /\ FLt(frames.prev[1], One)
     /\ FGt(frames.h, Zero) /\ FLt(frames.h, One)
     /\ frames.prev[1] # frames.h)
    => ~(frames.prev[2] = Zero /\ frames.value = Zero)

\* the residual was zero at one candidate and positive at a larger one
C13_ZeroThenPositive ==
    /\ frames.pc = "done" /\ frames.prev # <<>>
    /\ FGt(frames.prev[1], Zero) /\ FLt(frames.h, One)
    /\ FLt(frames.prev[1], frames.h)
    /\ frames.prev[2] = Zero
    /\ FGt(frames.value, Zero)

\* C17: a call of acid_base_rxn with a candidate h of the bracket returns a
\* finite number and leaves the molarity map and the constant vector as they
\* were passed
C17_ResidualPure ==
    (/\ frames.pc = "done"
     /\ FGe(frames.h, BracketLo) /\ FLe(frames.h, BracketHi))
    => /\ frames.finite
       /\ frames.M = frames.M0
       /\ frames.Ka = frames.Ka0

\* a call on a map that lacks some of the species has returned
C17_PartialMapEvaluated ==
    /\ frames.pc = "done"
    /\ FGe(frames.h, BracketLo) /\ FLe(frames.h, BracketHi)
    /\ DOMAIN frames.M0 = {"S_cat", "S_an"}
    /\ frames.value # Zero

----------------------------------------------------------------------------
(* The calls taken whole                                                   *)

\* one pass of the loop for a run a = [r, M, Ka] that is in progress: the
\* body, or the failure to converge once maxiter passes are done; a run that
\* has ended is left as it is
BrenthPass[a \in Any] ==
    IF a.r.status # "INPROGRESS" THEN a
    ELSE IF a.r.st.i >= MaxIter
    THEN [a EXCEPT !.r = [status |-> "CONVERR", x |-> Zero, st |-> a.r.st]]
    ELSE [a EXCEPT !.r = BrenthIter(a.r.st, a.M, a.Ka, XTol, RTol)]

\* 2, 4, ... 128 passes, more than maxiter + 1
BrenthPass2[a \in Any] == BrenthPass[BrenthPass[a]]
BrenthPass4[a \in Any] == BrenthPass2[BrenthPass2[a]]
BrenthPass8[a \in Any] == BrenthPass4[BrenthPass4[a]]
BrenthPass16[a \in Any] == BrenthPass8[BrenthPass8[a]]
BrenthPass32[a \in Any] == BrenthPass16[BrenthPass16[a]]
BrenthPass64[a \in Any] == BrenthPass32[BrenthPass32[a]]
BrenthPass128[a \in Any] == BrenthPass64[BrenthPass64[a]]

\* the loop of brenth from the state b on, to its end
BrenthLoop(b, M, Ka) ==
    BrenthPass128[[r |-> [status |-> "INPROGRESS", x |-> Zero, st |-> b],
                   M |-> M, Ka |-> Ka]].r

\* brenth(acid_base_rxn, 1e-14, 1.0, args, xtol=1e-12, maxiter=100)
brenth(M, Ka) ==
    Bind(BrenthStart(M, Ka, BracketLo, BracketHi), LAMBDA r :
        IF r.status = "INPROGRESS" THEN BrenthLoop(r.st, M, Ka) ELSE r)

solve_ph(components_molarity, Ka) ==
    Bind(brenth(components_molarity, Ka),
         LAMBDA r : solve_ph_outcome(r.status, r.x))

\* the liquid branch from the molarity map on; the stream is left as it was
\* when solve_ph raises
UpdateLiquid(stream, components_molarity, Ka) ==
    IF DOMAIN components_molarity = {}
    THEN [stream EXCEPT !.attrs = EmptyDefaults(stream.attrs)]
    ELSE Bind(solve_ph(components_molarity, Ka), LAMBDA o :
         IF o.exc # "none" THEN stream
         ELSE Bind(FNeg(Log10[o.h]), LAMBDA pH :
              Bind(calculate_alkalinity(components_molarity, pH, Ka),
                   LAMBDA alk :
                     WriteBack(stream, pH,
                               HighICCorrection(alk, components_molarity)))))

\* the stream as one uninterrupted call leaves it
update_ph_and_alkalinity(stream) ==
    IF stream.phase # "l"
    THEN [stream EXCEPT !.attrs = NonLiquidDefaults(stream.attrs)]
    ELSE Bind(get_component_molarities(stream),
              LAMBDA M : UpdateLiquid(stream, M, KaVector))

----------------------------------------------------------------------------
(* Invocations running at the same time on distinct stream objects         *)

NParallel == 2
ParThreads == 1..NParallel

ParInputs ==
    { MkStream("l", Scenario2, FreshAttrs), MkStream("l", CatAnOnly, <<>>),
      MkStream("g", Scenario3, StaleAttrs), MkStream("l", NoSpecies, StaleAttrs) }

InitPar ==
    /\ streams \in [StreamIds -> ParInputs]
    /\ frames = [t \in ParThreads |-> IdleFrame]
    /\ prevOut = [s \in StreamIds |-> NoOut]

\* a caller invokes update_ph_and_alkalinity(streams[s]) while no other
\* invocation is working on that object; entry: the object as it was passed
CallPar(t, s) ==
    /\ frames[t].pc = "idle"
    /\ \A u \in ParThreads \ {t} :
          frames[u].pc # "idle" => frames[u].stream # s
    /\ frames' = [frames EXCEPT ![t] =
                    ("entry" :> streams[s])
                    @@ [IdleFrame EXCEPT !.pc = "gate", !.stream = s,
                                         !.had = DOMAIN streams[s].attrs]]
    /\ UNCHANGED <<streams, prevOut>>

NextPar ==
    \E t \in ParThreads :
        \/ \E s \in StreamIds : CallPar(t, s)
        \/ PhaseGate(t)
        \/ Extract(t)
        \/ SolveStart(t)
        \/ SolveIter(t)
        \/ Finish(t)
        \/ Return(t)

SpecPar == InitPar /\ [][NextPar]_vars

\* C14: with invocations interleaved on distinct streams, a stream has at the
\* return of its invocation the pH and alkalinity that one uninterrupted call
\* on the stream as passed gives it, and a step of an invocation changes
\* nothing of another invocation and no stream but its own
C14_AsIfAlone ==
    /\ [](\A t \in ParThreads :
            frames[t].pc = "returned"
            => streams[frames[t].stream].attrs
                 = update_ph_and_alkalinity(frames[t].entry).attrs)
    /\ [][\E t \in ParThreads :
            /\ \A u \in ParThreads \ {t} : frames'[u] = frames[u]
            /\ \A s \in StreamIds :
                  streams'[s] # streams[s] => frames[t].stream = s]_vars

\* an invocation has returned with a solved pH while another, on another
\* stream, is in the middle of its own root finding
C14_ReturnedWhileOtherSolves ==
    \E t \in ParThreads, u \in ParThreads :
        /\ frames[t].pc = "returned"
        /\ frames[t].status = "CONVERGED"
        /\ frames[u].pc = "iter"
        /\ frames[u].br.i > 3
        /\ frames[u].stream # frames[t].stream
        /\ frames[u].M # frames[t].M

----------------------------------------------------------------------------
(* Properties of the solve and of the demonstration streams                *)

\* C11 as stated: whenever solve_ph returns an h that brenth converged to,
\* the residual at that h is below 1e-6 in absolute value
C11_ResidualBelowTolerance ==
    \A t \in Threads :
        (frames[t].pc = "alk" /\ frames[t].status = "CONVERGED")
        => FLt(FAbs(acid_base_rxn(frames[t].h, frames[t].M, frames[t].Ka)),
               F(1, -6))

\* C15: the constant vector of every liquid invocation is, to the last digit
\* of the floats, (10^-14, 10^-9.25, 10^-6.35, 10^-4.76, 10^-4.88, 10^-4.82,
\* 10^-4.86), every entry is positive, and no step of the invocation
\* changes it
C15_ConstantVectorFixed ==
    /\ [](\A t \in Threads :
            frames[t].Ka # <<>>
            => \A i \in 1..7 :
                 /\ frames[t].Ka[i][1] > 0
                 /\ FLe(FAbs(FSub[frames[t].Ka[i],
                                  <<(<<10000000, 56234133, 44668359, 17378008,
                                       13182567, 15135612, 13803843>>)[i],
                                    (<<-21, -17, -14, -12, -12, -12, -12>>)[i]>>]),
                        <<20000000, (<<-21, -17, -14, -12, -12, -12, -12>>)[i] - 7>>))
    /\ [][\A t \in Threads :
            (frames[t].Ka # <<>> /\ frames'[t].pc # "idle")
            => frames'[t].Ka = frames[t].Ka]_vars

\* an invocation holds the vector after more than thirty evaluations of the
\* residual
C15_VectorAfterSolve ==
    \E t \in Threads :
        /\ frames[t].pc = "alk"
        /\ frames[t].funcalls > 30
        /\ frames[t].Ka = KaVector
        /\ frames[t].Ka[1] = F(1, -14)

\* C18: a call on a liquid stream with some recognized species leaves the
\* pH and alkalinity that a call leaves on the same stream with every missing
\* recognized species added at concentration zero
C18_AbsentIsZero ==
    \A t \in Threads :
        (/\ frames[t].pc = "returned"
         /\ streams[frames[t].stream].phase = "l"
         /\ streams[frames[t].stream].IDs \cap Species # {})
        => streams[frames[t].stream].attrs
             = update_ph_and_alkalinity(
                   MkStream("l",
                            [c \in streams[frames[t].stream].IDs \cup Species |->
                                Get(streams[frames[t].stream].iconc, c)],
                            streams[frames[t].stream].attrs)).attrs

\* a solved call has returned on a stream that lacks six of the species
C18_PartialStreamSolved ==
    \E t \in Threads :
        /\ frames[t].pc = "returned"
        /\ streams[frames[t].stream].phase = "l"
        /\ streams[frames[t].stream].IDs \cap Species = {"S_cat", "S_an"}
        /\ frames[t].funcalls > 2

\* C19: on a liquid stream with molarities S_cat = 0.04, S_an = 0.02 and every
\* other species zero or missing, the pH written is above 7.0 and the
\* alkalinity above 0
C19_Scenario1 ==
    \A t \in Threads :
        (/\ frames[t].pc = "returned"
         /\ streams[frames[t].stream].phase = "l"
         /\ Get(frames[t].M, "S_cat") = F(4, -2)
         /\ Get(frames[t].M, "S_an") = F(2, -2)
         /\ \A k \in Species \ {"S_cat", "S_an"} : Get(frames[t].M, k) = Zero)
        => /\ FGt(streams[frames[t].stream].attrs["_pH"], Seven)
           /\ FGt(streams[frames[t].stream].attrs["_SAlk"], Zero)

\* the call has returned on the stream with all eight species present
C19_Scenario1Returned ==
    \E t \in Threads :
        /\ frames[t].pc = "returned"
        /\ streams[frames[t].stream].phase = "l"
        /\ DOMAIN frames[t].M = Species
        /\ Get(frames[t].M, "S_cat") = F(4, -2)
        /\ Get(frames[t].M, "S_an") = F(2, -2)
        /\ \A k \in Species \ {"S_cat", "S_an"} : Get(frames[t].M, k) = Zero
        /\ frames[t].status = "CONVERGED"

\* C20, as the code has it: on the first demonstration stream of main() the
\* pH written is acidic, between 5.5 and 5.6, and the alkalinity written is
\* 0.7 * S_IC * 1000, above the alkalinity calculate_alkalinity gives
C20_Scenario2Acidic ==
    \A t \in Threads :
        (/\ frames[t].pc = "returned"
         /\ streams[frames[t].stream].phase = "l"
         /\ streams[frames[t].stream].iconc = Scenario2)
        => /\ FGt(streams[frames[t].stream].attrs["_pH"], F(55, -1))
           /\ FLt(streams[frames[t].stream].attrs["_pH"], F(56, -1))
           /\ streams[frames[t].stream].attrs["_SAlk"]
                = FMul[FMul[BicarbFraction, Get(frames[t].M, "S_IC")], Thousand]
           /\ FGt(streams[frames[t].stream].attrs["_SAlk"],
                  calculate_alkalinity(frames[t].M,
                      streams[frames[t].stream].attrs["_pH"], frames[t].Ka))

\* C20 as stated: on that stream the pH written is between 7 and 8 and the
\* alkalinity written is 0.7 * S_IC * 1000, above the equilibrium value
C20_Scenario2NearNeutral ==
    \A t \in Threads :
        (/\ frames[t].pc = "returned"
         /\ streams[frames[t].stream].phase = "l"
         /\ streams[frames[t].stream].iconc = Scenario2)
        => /\ FGe(streams[frames[t].stream].attrs["_pH"], Seven)
           /\ FLe(streams[frames[t].stream].attrs["_pH"], F(8, 0))
           /\ streams[frames[t].stream].attrs["_SAlk"]
                = FMul[FMul[BicarbFraction, Get(frames[t].M, "S_IC")], Thousand]
           /\ FGt(streams[frames[t].stream].attrs["_SAlk"],
                  calculate_alkalinity(frames[t].M,
                      streams[frames[t].stream].attrs["_pH"], frames[t].Ka))

\* the call has returned on that stream, converged, with S_IC = 0.5 mol/L
C20_Scenario2Returned ==
    \E t \in Threads :
        /\ frames[t].pc = "returned"
        /\ streams[frames[t].stream].phase = "l"
        /\ streams[frames[t].stream].iconc = Scenario2
        /\ frames[t].status = "CONVERGED"
        /\ FGt(Get(frames[t].M, "S_IC"), F(49, -2))
        /\ FLt(Get(frames[t].M, "S_IC"), F(51, -2))

\* C16 as stated: every invocation eventually returns; the root finding
\* evaluates the residual at the two ends and in at most 100 iterations, and
\* then yields an h or ends in the fallback, never in an exception
C16_EventuallyReturns ==
    /\ \A t \in Threads :
          (frames[t].pc = "gate") ~> (frames[t].pc = "returned")
    /\ [](\A t \in Threads :
            /\ frames[t].funcalls <= MaxIter + 2
            /\ frames[t].pc # "raised")

----------------------------------------------------------------------------
(* Properties of the demonstration streams and of the written values       *)

\* C21: the call on the second demonstration stream of main() (high VFA)
\* writes a pH strictly below, and an alkalinity strictly below, the ones a
\* call writes on the first demonstration stream
C21_Scenario3BelowScenario2 ==
    \A t \in Threads :
        (/\ frames[t].pc = "returned"
         /\ streams[frames[t].stream].phase = "l"
         /\ streams[frames[t].stream].iconc = Scenario3)
        => /\ FLt(streams[frames[t].stream].attrs["_pH"],
                  update_ph_and_alkalinity(
                      MkStream("l", Scenario2, FreshAttrs)).attrs["_pH"])
           /\ FLt(streams[frames[t].stream].attrs["_SAlk"],
                  update_ph_and_alkalinity(
                      MkStream("l", Scenario2, FreshAttrs)).attrs["_SAlk"])

\* the call has returned on the second demonstration stream, converged, with
\* the molarities the claim lists for S_IC and S_an
C21_Scenario3Returned ==
    \E t \in Threads :
        /\ frames[t].pc = "returned"
        /\ streams[frames[t].stream].phase = "l"
        /\ streams[frames[t].stream].iconc = Scenario3
        /\ frames[t].status = "CONVERGED"
        /\ FGt(Get(frames[t].M, "S_IC"), F(19, -2))
        /\ FLt(Get(frames[t].M, "S_IC"), F(21, -2))
        /\ Get(frames[t].M, "S_an") = F(4, -2)

\* C28, as the code has it: when the h that solve_ph returned makes the
\* residual exactly zero, calculate_alkalinity at pH = -log10(h) agrees with
\* max(0, 1000 * (2 * (S_cat - S_an) + S_IN)) to within a millionth of
\* 1000 * (the sum of the molarities, Kw/h and h)
C28_ExactRootAlkalinityRounded ==
    \A t \in Threads :
        (/\ frames[t].pc = "alk"
         /\ frames[t].status = "CONVERGED"
         /\ acid_base_rxn(frames[t].h, frames[t].M, frames[t].Ka) = Zero)
        => FLe(FAbs(FSub[calculate_alkalinity(frames[t].M,
                             FNeg(Log10[frames[t].h]), frames[t].Ka),
                         FMax[Zero,
                              FMul[Thousand,
                                   FAdd[FMul[Two,
                                             FSub[Get(frames[t].M, "S_cat"),
                                                  Get(frames[t].M, "S_an")]],
                                        Get(frames[t].M, "S_IN")]]]]),
               FMul[F(1, -3),
                    FAdd[FAdd[FAdd[FAdd[FAdd[FAdd[FAdd[FAdd[FAdd[
                        Get(frames[t].M, "S_cat"), Get(frames[t].M, "S_an")],
                        Get(frames[t].M, "S_IN")], Get(frames[t].M, "S_IC")],
                        Get(frames[t].M, "S_ac")], Get(frames[t].M, "S_pro")],
                        Get(frames[t].M, "S_bu")], Get(frames[t].M, "S_va")],
                        FDiv[frames[t].Ka[1], frames[t].h]], frames[t].h]])

\* solve_ph has returned an exact root inside the bracket on a stream whose
\* closed-form alkalinity is positive
C28_ExactRootReturned ==
    \E t \in Threads :
        /\ frames[t].pc = "alk"
        /\ frames[t].status = "CONVERGED"
        /\ frames[t].br.i > 5
        /\ acid_base_rxn(frames[t].h, frames[t].M, frames[t].Ka) = Zero
        /\ FGt(Get(frames[t].M, "S_cat"), Get(frames[t].M, "S_an"))
        /\ FGt(Get(frames[t].M, "S_IC"), Zero)

\* C28 as stated: when the h that solve_ph returned makes the residual
\* exactly zero, calculate_alkalinity at pH = -log10(h) equals
\* max(0, 1000 * (2 * (S_cat - S_an) + S_IN))
C28_ExactRootAlkalinity ==
    \A t \in Threads :
        (/\ frames[t].pc = "alk"
         /\ frames[t].status = "CONVERGED"
         /\ acid_base_rxn(frames[t].h, frames[t].M, frames[t].Ka) = Zero)
        => calculate_alkalinity(frames[t].M, FNeg(Log10[frames[t].h]),
                                frames[t].Ka)
             = FMax[Zero,
                    FMul[Thousand,
                         FAdd[FMul[Two, FSub[Get(frames[t].M, "S_cat"),
                                             Get(frames[t].M, "S_an")]],
                              Get(frames[t].M, "S_IN")]]]

----------------------------------------------------------------------------
(* solve_ph and calculate_alkalinity called directly, the constant vector  *)
(* chosen by the caller: the vector of update_ph_and_alkalinity or one     *)
(* with an entry that is zero or negative                                  *)

\* the constant vector with entry i replaced
Corrupt(i, v) == [KaVector EXCEPT ![i] = v]

BadVectors ==
    { Corrupt(i, Zero) : i \in 1..7 }
    \cup { Corrupt(i, FNeg(KaVector[i])) : i \in 1..7 }

SolveVectors == BadVectors \cup {KaVector}

SolveMaps ==
    { get_component_molarities(MkStream("l", ic, <<>>)) :
        ic \in {Scenario2, Scenario3, CatAnOnly, Full(<<>>)} }

InitSolve ==
    /\ streams = [s \in StreamIds |-> MkStream("l", NoSpecies, <<>>)]
    /\ frames = [t \in Threads |-> IdleFrame]
    /\ prevOut = [s \in StreamIds |-> NoOut]

\* the caller invokes solve_ph(components_molarity, Ka)
SolveCall(t) ==
    /\ frames[t].pc = "idle"
    /\ \E components_molarity \in SolveMaps, Ka \in SolveVectors :
          frames' = [frames EXCEPT ![t] =
                        [IdleFrame EXCEPT !.pc = "solve", !.Ka = Ka,
                                          !.M = components_molarity]]
    /\ UNCHANGED <<streams, prevOut>>

\* with the h returned: calculate_alkalinity(components_molarity,
\* -log10(h), Ka); alk: the value returned
AlkCall(t) ==
    LET fr == frames[t]
    IN  /\ fr.pc = "alk"
        /\ \E pH \in {FNeg(Log10[fr.h])} :
           \E alk \in {calculate_alkalinity(fr.M, pH, fr.Ka)} :
              frames' = [frames EXCEPT ![t] =
                            ("alk" :> alk) @@ ("pH" :> pH)
                            @@ [fr EXCEPT !.pc = "done"]]
        /\ UNCHANGED <<streams, prevOut>>

SolveAgain(t) ==
    /\ frames[t].pc \in {"done", "raised"}
    /\ frames' = [frames EXCEPT ![t] = IdleFrame]
    /\ UNCHANGED <<streams, prevOut>>

NextSolve ==
    \E t \in Threads :
        \/ SolveCall(t)
        \/ SolveStart(t)
        \/ SolveIter(t)
        \/ AlkCall(t)
        \/ SolveAgain(t)

SpecSolve == InitSolve /\ [][NextSolve]_vars

\* C22, as the code has it: with a constant vector that has one entry zero
\* or negative, solve_ph returns h = 1e-7 exactly when brenth finds no change
\* of sign between the ends of the bracket, and calculate_alkalinity at that
\* h is then called with pH 7.0 and returns a number; when a change of sign
\* remains, solve_ph returns the h of the bracket that brenth converges to;
\* in neither case does it raise
C22_BadVectorFallsBackOnSignError ==
    \A t \in Threads :
        frames[t].Ka \in BadVectors
        => /\ frames[t].pc # "raised"
           /\ frames[t].pc \in {"alk", "done"}
              => \/ /\ frames[t].status = "SIGNERR"
                    /\ SignBit(acid_base_rxn(BracketLo, frames[t].M,
                                             frames[t].Ka))
                         = SignBit(acid_base_rxn(BracketHi, frames[t].M,
                                                 frames[t].Ka))
                    /\ frames[t].h = FallbackH
                 \/ /\ frames[t].status = "CONVERGED"
                    /\ frames[t].h = brenth(frames[t].M, frames[t].Ka).x
                    /\ FGe(frames[t].h, BracketLo)
                    /\ FLe(frames[t].h, BracketHi)
           /\ (frames[t].pc = "done" /\ frames[t].status = "SIGNERR")
              => /\ frames[t].pH = Seven
                 /\ frames[t].alk \in Float

\* solve_ph has fallen back on a vector with a negative water constant, and
\* calculate_alkalinity has returned a positive number at pH 7
C22_FellBackOnBadVector ==
    \E t \in Threads :
        /\ frames[t].pc = "done"
        /\ frames[t].Ka = Corrupt(1, FNeg(KaVector[1]))
        /\ frames[t].status = "SIGNERR"
        /\ frames[t].h = F(1, -7)
        /\ FGt(frames[t].alk, Zero)

\* C22 as stated: with a constant vector that has one entry zero or
\* negative, solve_ph does not raise and returns h = 1e-7, and
\* calculate_alkalinity at that pH returns a number
C22_BadVectorFallsBack ==
    \A t \in Threads :
        frames[t].Ka \in BadVectors
        => /\ frames[t].pc # "raised"
           /\ frames[t].pc \in {"alk", "done"} => frames[t].h = FallbackH
           /\ frames[t].pc = "done" => frames[t].alk \in Float

\* C25: the map get_component_molarities returns has as keys exactly the
\* recognized species among the stream's components, never H2O or another
\* component, and as values the concentration divided by 1000 times the molar
\* mass: 1 for S_cat and S_an, 14.0067 for S_IN, 12.0107 for S_IC, and 60,
\* 74, 88, 102 for S_ac, S_pro, S_bu, S_va
C25_MolaritiesOfRecognizedSpecies ==
    \A t \in Threads :
        frames[t].extracted
        => /\ DOMAIN frames[t].M
                = streams[frames[t].stream].IDs
                  \cap {"S_cat", "S_an", "S_IN", "S_IC",
                        "S_ac", "S_pro", "S_bu", "S_va"}
           /\ \A c \in DOMAIN frames[t].M :
                 frames[t].M[c]
                   = FDiv[streams[frames[t].stream].iconc[c],
                          FMul[F(1000, 0),
                               CASE c \in {"S_cat", "S_an"} -> F(1, 0)
                                 [] c = "S_IN"  -> F(140067, -4)
                                 [] c = "S_IC"  -> F(120107, -4)
                                 [] c = "S_ac"  -> F(60, 0)
                                 [] c = "S_pro" -> F(74, 0)
                                 [] c = "S_bu"  -> F(88, 0)
                                 [] c = "S_va"  -> F(102, 0)]]

\* the map has been extracted from a stream that also carries H2O and S_su,
\* with all eight species and a non-zero valerate molarity
C25_ExtractedFromFullStream ==
    \E t \in Threads :
        /\ frames[t].extracted
        /\ {"H2O", "S_su"} \subseteq streams[frames[t].stream].IDs
        /\ DOMAIN frames[t].M = Species
        /\ frames[t].M["S_va"] = FDiv[F(5, 0), F(102000, 0)]
        /\ FGt(frames[t].M["S_IC"], Zero)

\* C23: the value acid_base_rxn returns is
\* S_cat + h + (S_IN - NH3) - S_an - OH - HCO3 - Ac - Pro - Bu - Va with
\* OH = Kw / h, each dissociated fraction S_X * Ka_X / (Ka_X + h), Kw the
\* first constant and the constants of S_IN, S_IC, S_ac, S_pro, S_bu, S_va
\* the second to the seventh, a species missing from the map counting as 0
C23_ResidualIsReference ==
    (frames.pc = "done" /\ frames.finite)
    => LET h == frames.h
           K == frames.Ka0
           S == [k \in {"S_cat", "S_an", "S_IN", "S_IC", "S_ac", "S_pro",
                        "S_bu", "S_va"} |->
                    IF k \in DOMAIN frames.M0 THEN frames.M0[k] ELSE Zero]
           X == [k \in {"S_IN", "S_IC", "S_ac", "S_pro", "S_bu", "S_va"} |->
                    LET i == CASE k = "S_IN" -> 2 [] k = "S_IC" -> 3
                               [] k = "S_ac" -> 4 [] k = "S_pro" -> 5
                               [] k = "S_bu" -> 6 [] k = "S_va" -> 7
                    IN  FDiv[FMul[S[k], K[i]], FAdd[K[i], h]]]
       IN  frames.value
             = FSub[FSub[FSub[FSub[FSub[FSub[FSub[
                   FAdd[FAdd[S["S_cat"], h], FSub[S["S_IN"], X["S_IN"]]],
                   S["S_an"]], FDiv[K[1], h]], X["S_IC"]], X["S_ac"]],
                   X["S_pro"]], X["S_bu"]], X["S_va"]]

\* the residual of the first demonstration stream has been evaluated at
\* h = 3e-7 and is a non-zero number
C23_ResidualEvaluated ==
    /\ frames.pc = "done" /\ frames.finite
    /\ frames.M0 = get_component_molarities(MkStream("l", Scenario2, <<>>))
    /\ frames.h = F(3, -7)
    /\ frames.value # Zero

\* C24: the value calculate_alkalinity returns is
\* max(0, 1000 * (HCO3 + OH - h + NH3 + Ac + Pro + Bu + Va + S_cat - S_an))
\* with h = 10^(-pH) and the fractions and constants paired as in the
\* residual
C24_AlkalinityIsReference ==
    \A t \in Threads :
        frames[t].pc = "done"
        => LET h == Pow10(FNeg(frames[t].pH))
               K == frames[t].Ka
               S == [k \in {"S_cat", "S_an", "S_IN", "S_IC", "S_ac", "S_pro",
                            "S_bu", "S_va"} |->
                        IF k \in DOMAIN frames[t].M THEN frames[t].M[k]
                        ELSE Zero]
               X == [k \in {"S_IN", "S_IC", "S_ac", "S_pro", "S_bu", "S_va"} |->
                        LET i == CASE k = "S_IN" -> 2 [] k = "S_IC" -> 3
                                   [] k = "S_ac" -> 4 [] k = "S_pro" -> 5
                                   [] k = "S_bu" -> 6 [] k = "S_va" -> 7
                        IN  FDiv[FMul[S[k], K[i]], FAdd[K[i], h]]]
           IN  frames[t].alk
                 = FMax[Zero,
                        FMul[Thousand,
                             FSub[FAdd[FAdd[FAdd[FAdd[FAdd[FAdd[
                                 FSub[FAdd[X["S_IC"], FDiv[K[1], h]], h],
                                 X["S_IN"]], X["S_ac"]], X["S_pro"]],
                                 X["S_bu"]], X["S_va"]], S["S_cat"]],
                                 S["S_an"]]]]

\* calculate_alkalinity has returned a positive value for the first
\* demonstration stream at the pH of its solve, with the constant vector of
\* update_ph_and_alkalinity
C24_AlkalinityReturned ==
    \E t \in Threads :
        /\ frames[t].pc = "done"
        /\ frames[t].Ka = KaVector
        /\ frames[t].status = "CONVERGED"
        /\ frames[t].M = get_component_molarities(MkStream("l", Scenario2, <<>>))
        /\ FGt(frames[t].alk, F(80, 0))
        /\ FLt(frames[t].alk, F(100, 0))

\* C26: in the solved path the alkalinity written is max(A, 0.7 * S_IC * 1000)
\* when the S_IC molarity is above 0.01 and A when it is 0.01, below it or
\* missing, A being what calculate_alkalinity returned for the pH written;
\* the alkalinity written is never below A
C26_CorrectionIsMaxAboveThreshold ==
    \A t \in Threads :
        (/\ frames[t].pc = "returned"
         /\ frames[t].status \in {"CONVERGED", "SIGNERR"})
        => LET A == calculate_alkalinity(frames[t].M,
                        streams[frames[t].stream].attrs["_pH"], frames[t].Ka)
               written == streams[frames[t].stream].attrs["_SAlk"]
           IN  /\ IF "S_IC" \in DOMAIN frames[t].M
                     /\ FGt(frames[t].M["S_IC"], F(1, -2))
                  THEN written
                         = FMax[A, FMul[FMul[F(7, -1), frames[t].M["S_IC"]],
                                        F(1000, 0)]]
                  ELSE written = A
               /\ FGe(written, A)

\* a solved call has returned on a stream whose S_IC molarity is exactly
\* 0.01, with the equilibrium alkalinity, below 7 meq/L, written unchanged
C26_AtThresholdUnchanged ==
    \E t \in Threads :
        /\ frames[t].pc = "returned"
        /\ frames[t].status = "CONVERGED"
        /\ Get(frames[t].M, "S_IC") = F(1, -2)
        /\ FLt(streams[frames[t].stream].attrs["_SAlk"], F(7, 0))
        /\ FGt(streams[frames[t].stream].attrs["_SAlk"], Zero)

\* C27: the pH written to a liquid stream in the solved path is -log10 of the
\* h that solve_ph returns for the stream's molarities, whether the
\* correction replaced the alkalinity or left it
C27_PHFromSolveOnly ==
    \A t \in Threads :
        (/\ frames[t].pc = "returned"
         /\ frames[t].status \in {"CONVERGED", "SIGNERR"})
        => /\ streams[frames[t].stream].attrs["_pH"]
                = FNeg(Log10[frames[t].h])
           /\ frames[t].h = solve_ph(frames[t].M, frames[t].Ka).h

\* a converged call has returned on a stream whose S_IC molarity is just
\* above 0.01 and whose alkalinity the correction replaced; the pH is not
\* the neutral one
C27_CorrectedJustAboveThreshold ==
    \E t \in Threads :
        /\ frames[t].pc = "returned"
        /\ frames[t].status = "CONVERGED"
        /\ FGt(Get(frames[t].M, "S_IC"), F(1, -2))
        /\ FLt(Get(frames[t].M, "S_IC"), F(101, -4))
        /\ streams[frames[t].stream].attrs["_SAlk"]
             = FMul[FMul[F(7, -1), frames[t].M["S_IC"]], F(1000, 0)]
        /\ FGt(streams[frames[t].stream].attrs["_SAlk"],
               calculate_alkalinity(frames[t].M,
                   streams[frames[t].stream].attrs["_pH"], frames[t].Ka))
        /\ FLt(streams[frames[t].stream].attrs["_pH"], F(69, -1))

\* C29: on a liquid stream whose recognized species are present, all at
\* concentration zero, the molarity map is not empty, the solve runs, and the
\* call writes the neutral pH (7 to within 1e-5) and alkalinity 0; on a liquid
\* stream with no recognized species the call writes pH 7.0 and alkalinity
\* 2.5 without solving
C29_ZeroSpeciesAreSolved ==
    \A t \in Threads :
        (/\ frames[t].pc = "returned"
         /\ streams[frames[t].stream].phase = "l")
        => /\ (/\ streams[frames[t].stream].IDs \cap Species # {}
               /\ \A c \in streams[frames[t].stream].IDs \cap Species :
                     streams[frames[t].stream].iconc[c] = Zero)
              => /\ DOMAIN frames[t].M # {}
                 /\ frames[t].funcalls >= 2
                 /\ FLe(FAbs(FSub[streams[frames[t].stream].attrs["_pH"],
                                  F(7, 0)]), F(1, -5))
                 /\ streams[frames[t].stream].attrs["_SAlk"] = Zero
           /\ streams[frames[t].stream].IDs \cap Species = {}
              => /\ frames[t].funcalls = 0
                 /\ streams[frames[t].stream].attrs["_pH"] = F(7, 0)
                 /\ streams[frames[t].stream].attrs["_SAlk"] = F(25, -1)

\* a converged call has returned on a liquid stream with all eight species
\* at concentration zero
C29_AllZeroStreamSolved ==
    \E t \in Threads :
        /\ frames[t].pc = "returned"
        /\ streams[frames[t].stream].phase = "l"
        /\ Species \subseteq streams[frames[t].stream].IDs
        /\ \A c \in Species : streams[frames[t].stream].iconc[c] = Zero
        /\ frames[t].status = "CONVERGED"
        /\ frames[t].funcalls > 2

----------------------------------------------------------------------------
(* run_all_simulations of the sidebar.  In this specification frames is    *)
(* the session: state.sim_results, the two progress widgets and the        *)
(* invocation of run_all_simulations that render_sidebar makes when the    *)
(* button is pressed; run_simulation is a call that returns a result or    *)
(* raises an Exception.                                                    *)

MaxRuns == 2
NSims == 3
Sims == 1..NSims

\* the empty slot, and the result of simulation k of the run-th press of the
\* button (run 0: what an earlier session left), computed with the kinetic
\* parameters of the session or with none
None == [run |-> -1, sim |-> 0, kinetics |-> FALSE]
Result(run, k, kinetics) == [run |-> run, sim |-> k, kinetics |-> kinetics]

\* sim_results: the three slots; use_kinetics: the checkbox; i: the loop index, from 1; failed: the
\* simulation that raised, 0 for none; ret: the value returned
RunIdle ==
    [pc |-> "idle", run |-> 0, sim_results |-> [k \in Sims |-> None],
     use_kinetics |-> FALSE, i |-> 0, failed |-> 0, ret |-> "none", progress_bar |-> "absent",
     status_text |-> "absent", error |-> FALSE]

InitRun ==
    /\ streams = [s \in StreamIds |-> MkStream("l", NoSpecies, <<>>)]
    /\ prevOut = [s \in StreamIds |-> NoOut]
    /\ \E old \in [Sims -> BOOLEAN] :
          frames = [RunIdle EXCEPT !.sim_results =
                       [k \in Sims |-> IF old[k] THEN Result(0, k, FALSE)
                                       ELSE None]]

\* the button is pressed, the checkbox as the user left it:
\* sims_run = run_all_simulations(state)
RunCall ==
    /\ frames.pc = "idle"
    /\ frames.run < MaxRuns
    /\ \E use_kinetics \in BOOLEAN :
       frames' = [frames EXCEPT !.pc = "reset", !.run = frames.run + 1,
                                !.use_kinetics = use_kinetics,
                                !.i = 0, !.failed = 0, !.ret = "none",
                                !.progress_bar = "absent",
                                !.status_text = "absent", !.error = FALSE]
    /\ UNCHANGED <<streams, prevOut>>

\* the reset left out
ClearResults_Keep(sim_results) == sim_results

\* state.sim_results = [None, None, None]
ClearResults(sim_results) == [k \in Sims |-> None]

RunReset ==
    /\ frames.pc = "reset"
    /\ frames' = [frames EXCEPT !.pc = "widgets",
                                !.sim_results = ClearResults(frames.sim_results)]
    /\ UNCHANGED <<streams, prevOut>>

\* progress_bar = st.sidebar.progress(0); status_text = st.sidebar.empty()
RunWidgets ==
    /\ frames.pc = "widgets"
    /\ frames' = [frames EXCEPT !.pc = "loop", !.i = 1,
                                !.progress_bar = "shown",
                                !.status_text = "shown"]
    /\ UNCHANGED <<streams, prevOut>>

\* one pass of the loop: the progress update, run_simulation, and the store
\* when it returned
RunSim ==
    /\ frames.pc = "loop"
    /\ frames.i <= NSims
    /\ \E raised \in BOOLEAN :
          frames' = IF raised
                    THEN [frames EXCEPT !.pc = "except", !.failed = frames.i]
                    ELSE [frames EXCEPT !.sim_results[frames.i] =
                                            Result(frames.run, frames.i,
                                                   frames.use_kinetics),
                                        !.i = frames.i + 1]
    /\ UNCHANGED <<streams, prevOut>>

\* after the loop: progress 100, "All simulations complete!", return True
RunLoopEnd ==
    /\ frames.pc = "loop"
    /\ frames.i > NSims
    /\ frames' = [frames EXCEPT !.pc = "finally", !.ret = "True"]
    /\ UNCHANGED <<streams, prevOut>>

\* except Exception: st.sidebar.error(...); return False
RunExcept ==
    /\ frames.pc = "except"
    /\ frames' = [frames EXCEPT !.pc = "finally", !.ret = "False",
                                !.error = TRUE]
    /\ UNCHANGED <<streams, prevOut>>

\* finally: progress_bar.empty(); status_text.empty(); then the return
RunFinally ==
    /\ frames.pc = "finally"
    /\ frames' = [frames EXCEPT !.pc = "returned",
                                !.progress_bar = "cleared",
                                !.status_text = "cleared"]
    /\ UNCHANGED <<streams, prevOut>>

\* render_sidebar takes the value; the session waits for the next press
RunReturn ==
    /\ frames.pc = "returned"
    /\ frames' = [frames EXCEPT !.pc = "idle"]
    /\ UNCHANGED <<streams, prevOut>>

NextRun ==
    \/ RunCall
    \/ RunReset
    \/ RunWidgets
    \/ RunSim
    \/ RunLoopEnd
    \/ RunExcept
    \/ RunFinally
    \/ RunReturn

SpecRun == InitRun /\ [][NextRun]_vars

\* C30: run_all_simulations first sets the three slots to None; in the loop
\* the slots before the index hold this run's results, in order, and the
\* others None; it returns True only with this run's three results stored;
\* when simulation i raised it returns False with the slots before i holding
\* this run's results and slot i and the later ones None; and at the return
\* both progress widgets are cleared, on either path
C30_RunAllSimulations ==
    /\ frames.pc = "widgets" => \A k \in Sims : frames.sim_results[k] = None
    /\ frames.pc \in {"loop", "except", "finally", "returned"}
       => \A k \in Sims :
             frames.sim_results[k]
               = IF k < frames.i /\ (frames.failed = 0 \/ k < frames.failed)
                 THEN Result(frames.run, k, frames.use_kinetics) ELSE None
    /\ frames.pc = "returned"
       => /\ frames.ret \in {"True", "False"}
          /\ frames.ret = "True"
             => \A k \in Sims :
                   frames.sim_results[k]
                     = Result(frames.run, k, frames.use_kinetics)
          /\ frames.failed # 0
             => /\ frames.ret = "False"
                /\ \A k \in Sims :
                      frames.sim_results[k]
                        = IF k < frames.failed
                          THEN Result(frames.run, k, frames.use_kinetics)
                          ELSE None
          /\ frames.progress_bar = "cleared"
          /\ frames.status_text = "cleared"

\* a second run has returned False after its second simulation raised, in a
\* session whose first run had stored three results
C30_SecondRunFailedAtTwo ==
    /\ frames.pc = "returned"
    /\ frames.run = 2
    /\ frames.failed = 2
    /\ frames.ret = "False"
    /\ frames.sim_results[1].run = 2
    /\ frames.sim_results[3] = None

====
